---- MODULE Spec2Model ----
(***************************************************************************)
(* Model of homework_bot (src/homework.py, src/exceptions.py): a           *)
(* single-threaded polling loop that asks the homework API for status      *)
(* changes and relays them to one Telegram chat.                           *)
(*                                                                         *)
(* Conventions.                                                            *)
(*  - Python values are tagged records: None, str, int, list, dict.        *)
(*    A dict is a record over a fixed universe of keys in which a key      *)
(*    that is not in the dict holds Absent.                                *)
(*  - Text is a sequence of string pieces; an f-string is the              *)
(*    concatenation of its pieces, Str(v) being Python's str(v).           *)
(*    The Cyrillic literals of the source are transliterated to ASCII.     *)
(*  - A Python function is an operator that returns                        *)
(*       [exc |-> exception or NoError, ret |-> value, logs |-> entries].  *)
(*  - Exceptions are [cls, message]; the class hierarchy is Bases.         *)
(***************************************************************************)
EXTENDS Integers, Sequences, FiniteSets, TLC

VARIABLES
    PRACTICUM_TOKEN,  \* os.getenv('TOKEN_PRACTICUM'), fixed at import
    TELEGRAM_TOKEN,   \* os.getenv('TOKEN'), fixed at import
    pc,               \* position of main
    clock,            \* int(time.time())
    timestamp,        \* main's cursor; Unbound before line 131
    response,         \* main's local: value returned by get_api_answer
    homeworks,        \* main's local: list returned by check_response
    idx,              \* position of the for loop in homeworks (1-based)
    message,          \* main's local: text to send
    error,            \* exception in flight or just handled, else NoError
    handler,          \* except clause that handled the cycle's exception
    http,             \* what requests.get did in the current cycle
    log,              \* log entries written in the current cycle
    sent,             \* bot.send_message attempts of the current cycle
    cycle,            \* number of cycles completed
    nfetch,           \* number of get_api_answer calls so far
    from_date,        \* cursor passed to the latest get_api_answer call
    raised,           \* the call of the current cycle's try block that
                      \* raised, or "none"
    prev,             \* the cycle before: its from_date, whether it raised
    sleeps,           \* time.sleep calls since the latest get_api_answer
    slept             \* seconds slept since the latest get_api_answer

vars == <<PRACTICUM_TOKEN, TELEGRAM_TOKEN, pc, clock, timestamp, response,
          homeworks, idx, message, error, handler, http, log, sent, cycle,
          nfetch, from_date, raised, prev, sleeps, slept>>

(***************************************************************************)
(* Bounds of the model.                                                    *)
(***************************************************************************)
MaxCycles == 2   \* the loop is followed for MaxCycles sleeps
MaxLen == 2      \* longest 'homeworks' list the API returns

(***************************************************************************)
(* Python values.                                                          *)
(***************************************************************************)
None == [t |-> "None"]
Absent == [t |-> "absent"]
PyStr(s) == [t |-> "str", v |-> s]
PyInt(digits) == [t |-> "int", v |-> digits]
PyList(items) == [t |-> "list", v |-> items]
HomeworkDict(name, status) ==
    [t |-> "dict", homework_name |-> name, status |-> status]
ResponseDict(hws, date) ==
    [t |-> "dict", homeworks |-> hws, current_date |-> date]

Truthy(v) ==
    CASE v.t = "None" -> FALSE
      [] v.t = "str" -> v.v # ""
      [] v.t = "int" -> v.v # "0"
      [] v.t = "list" -> v.v # <<>>
      [] OTHER -> TRUE

Str(v) ==
    CASE v.t = "None" -> "None"
      [] v.t = "str" -> v.v
      [] v.t = "int" -> v.v
      [] v.t = "list" -> IF v.v = <<>> THEN "[]" ELSE "[...]"
      [] OTHER -> "{...}"

Hashable(v) == v.t \in {"None", "str", "int"}

\* dict.get(key): the value, or None when the key is not in the dict
DictGet(d, key) ==
    LET v == CASE key = "homework_name" -> d.homework_name
               [] key = "status" -> d.status
               [] key = "homeworks" -> d.homeworks
               [] key = "current_date" -> d.current_date
    IN IF v = Absent THEN None ELSE v

(***************************************************************************)
(* Exceptions.                                                             *)
(***************************************************************************)
NoError == [cls |-> "NoError", message |-> <<>>]
Raise(cls, text) == [cls |-> cls, message |-> text]

\* The proper ancestors of an exception class.
Bases(cls) ==
    CASE cls = "HomeworkAPIError" -> {"Exception"}
      [] cls = "HomeworkNotFoundError" -> {"HomeworkAPIError", "Exception"}
      [] cls = "HomeworkAPIResponseError" -> {"HomeworkAPIError", "Exception"}
      [] cls = "ValueError" -> {"Exception"}
      [] cls = "TypeError" -> {"Exception"}
      [] cls = "KeyError" -> {"Exception"}
      [] cls = "AttributeError" -> {"Exception"}
      [] cls = "RequestException" -> {"Exception"}
      [] cls = "HTTPError" -> {"RequestException", "Exception"}
      [] cls = "ConnectionError" -> {"RequestException", "Exception"}
      [] cls = "Timeout" -> {"RequestException", "Exception"}
      [] cls = "RequestsJSONDecodeError" ->
            {"RequestException", "ValueError", "Exception"}
      [] cls = "JSONDecodeError" -> {"ValueError", "Exception"}
      [] cls = "ApiTelegramException" -> {"Exception"}
      [] OTHER -> {}

IsInstance(e, cls) == e.cls = cls \/ cls \in Bases(e.cls)

Result(exc, ret, logs) == [exc |-> exc, ret |-> ret, logs |-> logs]
LogEntry(level, text) == [level |-> level, text |-> text]

(***************************************************************************)
(* Module constants.                                                       *)
(***************************************************************************)
TELEGRAM_CHAT_ID == PyInt("7230833414")
RETRY_PERIOD == 600
\* Variant with a defect: two verdicts exchanged.
HOMEWORK_VERDICTS_swapped ==
    [approved |-> "Rabota proverena: u revyuera est zamechaniya.",
     reviewing |-> "Rabota vzyata na proverku revyuerom.",
     rejected |-> "Rabota proverena: revyueru vsyo ponravilos. Ura!"]

HOMEWORK_VERDICTS ==
    [approved |-> "Rabota proverena: revyueru vsyo ponravilos. Ura!",
     reviewing |-> "Rabota vzyata na proverku revyuerom.",
     rejected |-> "Rabota proverena: u revyuera est zamechaniya."]

\* HOMEWORK_VERDICTS.get(status) for a hashable status
VerdictsGet(status) ==
    IF status.t = "str" /\ status.v \in DOMAIN HOMEWORK_VERDICTS
    THEN PyStr(HOMEWORK_VERDICTS[status.v])
    ELSE None

(***************************************************************************)
(* check_tokens, src/homework.py 42-47.                                    *)
(***************************************************************************)
MissingVariable == <<"Otsutstvuet obyazatelnaya peremennaya okruzheniya.">>

\* Variant that accumulates: one critical entry per missing variable, then
\* one raise whose message lists the missing names.
check_tokens_each(practicum_token, telegram_token, telegram_chat_id) ==
    LET all == <<[name |-> "PRACTICUM_TOKEN", value |-> practicum_token],
                 [name |-> "TELEGRAM_TOKEN", value |-> telegram_token],
                 [name |-> "TELEGRAM_CHAT_ID", value |-> telegram_chat_id]>>
        NotSet(x) == ~Truthy(x.value)
        missing == SelectSeq(all, NotSet)
    IN IF missing # <<>>
       THEN Result(Raise("ValueError",
                         <<"Otsutstvuyut peremennye okruzheniya: ">>
                             \o [i \in 1..Len(missing) |-> missing[i].name]),
                   None,
                   [i \in 1..Len(missing) |->
                       LogEntry("critical", <<missing[i].name>>)])
       ELSE Result(NoError, None, <<>>)

\* Variant with a defect: raises only when every value is missing.
check_tokens_all(practicum_token, telegram_token, telegram_chat_id) ==
    IF /\ ~Truthy(practicum_token)
       /\ ~Truthy(telegram_token)
       /\ ~Truthy(telegram_chat_id)
    THEN Result(Raise("ValueError", MissingVariable), None,
                <<LogEntry("critical", MissingVariable)>>)
    ELSE Result(NoError, None, <<>>)

check_tokens(practicum_token, telegram_token, telegram_chat_id) ==
    IF \/ ~Truthy(practicum_token)
       \/ ~Truthy(telegram_token)
       \/ ~Truthy(telegram_chat_id)
    THEN Result(Raise("ValueError", MissingVariable), None,
                <<LogEntry("critical", MissingVariable)>>)
    ELSE Result(NoError, None, <<>>)

(***************************************************************************)
(* send_message, src/homework.py 50-56.  outcome is what the call          *)
(* bot.send_message(TELEGRAM_CHAT_ID, message) did: NoError when it        *)
(* returned, else the exception it raised.                                 *)
(***************************************************************************)
\* Variant with a defect: no try/except around bot.send_message.
send_message_unguarded(text, outcome) ==
    IF outcome = NoError
    THEN Result(NoError, None,
                <<LogEntry("debug",
                           <<"Bot otpravil soobshchenie \"">> \o text
                               \o <<"\"">>)>>)
    ELSE Result(outcome, None, <<>>)

\* Variant with a defect: the debug entry is written before the send, so it
\* is written for a failed send too.
send_message_debugfirst(text, outcome) ==
    LET sentEntry == LogEntry("debug",
                              <<"Bot otpravil soobshchenie \"">> \o text
                                  \o <<"\"">>)
    IN IF outcome = NoError
       THEN Result(NoError, None, <<sentEntry>>)
       ELSE Result(NoError, None,
                   <<sentEntry,
                     LogEntry("error",
                              <<"Ne udalos otpravit soobshchenie v Telegram: ">>
                                  \o outcome.message)>>)

\* Variant with a defect: the failure is logged and raised again.
send_message_reraise(text, outcome) ==
    IF outcome = NoError
    THEN Result(NoError, None,
                <<LogEntry("debug",
                           <<"Bot otpravil soobshchenie \"">> \o text
                               \o <<"\"">>)>>)
    ELSE Result(outcome, None,
                <<LogEntry("error",
                           <<"Ne udalos otpravit soobshchenie v Telegram: ">>
                               \o outcome.message)>>)

send_message(text, outcome) ==
    IF outcome = NoError
    THEN Result(NoError, None,
                <<LogEntry("debug",
                           <<"Bot otpravil soobshchenie \"">> \o text
                               \o <<"\"">>)>>)
    ELSE IF IsInstance(outcome, "Exception")
    THEN Result(NoError, None,
                <<LogEntry("error",
                           <<"Ne udalos otpravit soobshchenie v Telegram: ">>
                               \o outcome.message)>>)
    ELSE Result(outcome, None, <<>>)

(***************************************************************************)
(* get_api_answer, src/homework.py 59-85.  out is what requests.get and    *)
(* response.json() did:                                                    *)
(*   out.raises       exception raised by requests.get, or NoError         *)
(*   out.status_code  response.status_code                                 *)
(*   out.json_error   exception raised by response.json(), or NoError      *)
(*   out.json         value response.json() returns                        *)
(***************************************************************************)
HttpOutcome(raises, status_code, json_error, json) ==
    [raises |-> raises, status_code |-> status_code,
     json_error |-> json_error, json |-> json]

\* Variant with a defect: every 2xx status counts as success (response.ok).
get_api_answer_try_2xx(out) ==
    IF out.raises # NoError
    THEN Result(out.raises, None, <<>>)
    ELSE IF out.status_code \notin {PyInt("200"), PyInt("201")}
    THEN Result(Raise("HomeworkAPIResponseError",
                      <<"Oshibka pri zaprose k API.Status kod: ",
                        Str(out.status_code)>>),
                None, <<>>)
    ELSE IF out.json_error # NoError
    THEN Result(out.json_error, None, <<>>)
    ELSE Result(NoError, out.json, <<>>)

\* lines 62-69: the body of the try block
get_api_answer_try(out) ==
    IF out.raises # NoError
    THEN Result(out.raises, None, <<>>)
    ELSE IF out.status_code # PyInt("200")
    THEN Result(Raise("HomeworkAPIResponseError",
                      <<"Oshibka pri zaprose k API.Status kod: ",
                        Str(out.status_code)>>),
                None, <<>>)
    ELSE IF out.json_error # NoError
    THEN Result(out.json_error, None, <<>>)
    ELSE Result(NoError, out.json, <<>>)

\* Variant with a defect: every requests exception becomes a
\* HomeworkAPIResponseError.
get_api_answer_allresponse(from, out) ==
    LET body == get_api_answer_try(out)
        e == body.exc
    IN IF e = NoError
       THEN body
       ELSE IF IsInstance(e, "RequestException")
       THEN Result(Raise("HomeworkAPIResponseError",
                         <<"Oshibka pri zaprose k API: ">> \o e.message),
                   None,
                   <<LogEntry("error",
                              <<"Oshibka HTTP pri zaprose k API: ">>
                                  \o e.message
                                  \o <<". Endpoint nedostupen.">>)>>)
       ELSE body

get_api_answer(from, out) ==
    LET body == get_api_answer_try(out)
        e == body.exc
    IN IF e = NoError
       THEN body
       ELSE IF IsInstance(e, "HTTPError")
       THEN Result(Raise("HomeworkAPIResponseError",
                         <<"Oshibka pri zaprose k API: ">> \o e.message),
                   None,
                   <<LogEntry("error",
                              <<"Oshibka HTTP pri zaprose k API: ">>
                                  \o e.message
                                  \o <<". Endpoint nedostupen.">>)>>)
       ELSE IF IsInstance(e, "RequestException")
       THEN Result(Raise("HomeworkAPIError",
                         <<"Oshibka pri zaprose k API: ">> \o e.message),
                   None,
                   <<LogEntry("error",
                              <<"Oshibka pri zaprose k API: ">> \o e.message
                                  \o <<". Endpoint nedostupen.">>)>>)
       ELSE body

(***************************************************************************)
(* check_response, src/homework.py 88-102.                                 *)
(***************************************************************************)
NotADict == <<"Otvet API ne yavlyaetsya slovarem.">>
NoHomeworksKey == <<"Otsutstvuet klyuch 'homeworks' v otvete API.">>
HomeworksNotAList == <<"Znachenie klyucha 'homeworks' dolzhno byt spiskom.">>

\* Variant with a defect: the key is looked up before the type is checked,
\* so a payload that is no dict is reported as lacking the key.
check_response_keyfirst(resp) ==
    IF resp.t # "dict" \/ resp.homeworks = Absent
    THEN Result(Raise("KeyError", NoHomeworksKey), <<>>,
                <<LogEntry("error", NoHomeworksKey)>>)
    ELSE IF resp.homeworks.t # "list"
    THEN Result(Raise("TypeError", HomeworksNotAList), <<>>,
                <<LogEntry("error", HomeworksNotAList)>>)
    ELSE Result(NoError, resp.homeworks.v, <<>>)

check_response(resp) ==
    IF resp.t # "dict"
    THEN Result(Raise("TypeError", NotADict), <<>>,
                <<LogEntry("error", NotADict)>>)
    ELSE IF resp.homeworks = Absent
    THEN Result(Raise("KeyError", NoHomeworksKey), <<>>,
                <<LogEntry("error", NoHomeworksKey)>>)
    ELSE IF resp.homeworks.t # "list"
    THEN Result(Raise("TypeError", HomeworksNotAList), <<>>,
                <<LogEntry("error", HomeworksNotAList)>>)
    ELSE Result(NoError, resp.homeworks.v, <<>>)

(***************************************************************************)
(* parse_status, src/homework.py 105-122.                                  *)
(***************************************************************************)
MissingFields ==
    <<"V dannykh o domashnei rabote otsutstvuyut obyazatelnye polya.">>

StatusChanged(homework_name, verdict) ==
    <<"Izmenilsya status proverki raboty \"", Str(homework_name), "\". ",
      Str(verdict)>>

\* Variant with a defect: the message does not name the status.
UnknownStatus_generic(status) == <<"Neizvestnyi status raboty">>

UnknownStatus(status) == <<"Neizvestnyi status raboty: ", Str(status)>>

\* Variant with a defect: the verdict is looked up before the fields are
\* tested.
parse_status_lookupfirst(homework) ==
    IF homework.t # "dict"
    THEN Result(Raise("AttributeError",
                      <<"object has no attribute 'get'">>), <<>>, <<>>)
    ELSE
    LET homework_name == DictGet(homework, "homework_name")
        status == DictGet(homework, "status")
    IN IF ~Hashable(status)
       THEN Result(Raise("TypeError", <<"unhashable type">>), <<>>, <<>>)
       ELSE IF VerdictsGet(status) = None
       THEN Result(Raise("HomeworkAPIResponseError", UnknownStatus(status)),
                   <<>>, <<LogEntry("error", UnknownStatus(status))>>)
       ELSE IF homework_name = None
       THEN Result(Raise("HomeworkNotFoundError", MissingFields), <<>>,
                   <<LogEntry("error", MissingFields)>>)
       ELSE Result(NoError,
                   StatusChanged(homework_name, VerdictsGet(status)), <<>>)

\* Variant with a defect: the presence of the keys is tested ('key' not in
\* homework), not their values.
parse_status_keycheck(homework) ==
    IF homework.t # "dict"
    THEN Result(Raise("AttributeError",
                      <<"object has no attribute 'get'">>), <<>>, <<>>)
    ELSE IF homework.homework_name = Absent \/ homework.status = Absent
    THEN Result(Raise("HomeworkNotFoundError", MissingFields), <<>>,
                <<LogEntry("error", MissingFields)>>)
    ELSE IF ~Hashable(homework.status)
    THEN Result(Raise("TypeError", <<"unhashable type">>), <<>>, <<>>)
    ELSE IF VerdictsGet(homework.status) = None
    THEN Result(Raise("HomeworkAPIResponseError",
                      UnknownStatus(homework.status)),
                <<>>, <<LogEntry("error", UnknownStatus(homework.status))>>)
    ELSE Result(NoError,
                StatusChanged(homework.homework_name,
                              VerdictsGet(homework.status)), <<>>)

parse_status(homework) ==
    IF homework.t # "dict"
    THEN \* homework.get: a value that is no dict has no method get
         Result(Raise("AttributeError",
                      <<"object has no attribute 'get'">>), <<>>, <<>>)
    ELSE
    LET homework_name == DictGet(homework, "homework_name")
        status == DictGet(homework, "status")
    IN IF homework_name = None \/ status = None
       THEN Result(Raise("HomeworkNotFoundError", MissingFields), <<>>,
                   <<LogEntry("error", MissingFields)>>)
       ELSE IF ~Hashable(status)
       THEN \* HOMEWORK_VERDICTS.get of an unhashable key
            Result(Raise("TypeError", <<"unhashable type">>), <<>>, <<>>)
       ELSE IF VerdictsGet(status) = None
       THEN Result(Raise("HomeworkAPIResponseError", UnknownStatus(status)),
                   <<>>, <<LogEntry("error", UnknownStatus(status))>>)
       ELSE Result(NoError,
                   StatusChanged(homework_name, VerdictsGet(status)), <<>>)

(***************************************************************************)
(* The environment: what the process environment, the homework API and     *)
(* Telegram can hand to the program.                                       *)
(***************************************************************************)
\* os.getenv: None for an unset variable, else its string
EnvValues == {None, PyStr(""), PyStr("secret")}

HomeworkNames == {Absent, None, PyStr("hw1")}
HomeworkStatuses ==
    {Absent, None, PyStr("approved"), PyStr("reviewing"), PyStr("rejected"),
     PyStr("lost"), PyList(<<>>)}

\* elements of the 'homeworks' list: records, and one value that is no dict
HomeworkRecords ==
    {HomeworkDict(PyStr("hw1"), s) : s \in HomeworkStatuses}
        \cup {HomeworkDict(n, PyStr("approved")) : n \in HomeworkNames}
        \cup {HomeworkDict(Absent, PyStr("lost")), PyStr("hw1")}

RECURSIVE ListsOf(_, _)
ListsOf(S, n) ==
    IF n = 0 THEN {<<>>}
    ELSE LET shorter == ListsOf(S, n - 1)
         IN shorter \cup {Append(l, x) : l \in {m \in shorter : Len(m) = n - 1},
                                         x \in S}

\* deserialized bodies of a 200 response; the API sends current_date beside
\* homeworks, and some bodies lack it
Payloads ==
    {None, PyList(<<>>), PyStr("error")}
        \cup {ResponseDict(h, PyInt("1700000000")) :
                h \in {Absent, None, PyStr("hw1")}
                        \cup {PyList(l) : l \in ListsOf(HomeworkRecords, MaxLen)}}
        \cup {ResponseDict(h, Absent) :
                h \in {Absent, None}
                        \cup {PyList(l) : l \in ListsOf(HomeworkRecords, 1)}}

StatusCodes == {"200", "201", "404", "500"}

HttpOutcomes ==
    {HttpOutcome(Raise(c, <<c>>), None, NoError, None) :
        c \in {"ConnectionError", "Timeout"}}
        \cup {HttpOutcome(NoError, PyInt(c), NoError, None) :
                c \in StatusCodes \ {"200"}}
        \cup {HttpOutcome(NoError, PyInt("200"), Raise(c, <<c>>), None) :
                c \in {"RequestsJSONDecodeError", "JSONDecodeError"}}
        \cup {HttpOutcome(NoError, PyInt("200"), NoError, p) : p \in Payloads}

\* what bot.send_message does: returns, or raises a Telegram or network error
SendOutcomes == {NoError, Raise("ApiTelegramException", <<"Bad Request">>)}

NoHttp == HttpOutcome(NoError, None, NoError, None)
Unbound == -1
NoPrev == [from_date |-> Unbound, raised |-> FALSE]

(***************************************************************************)
(* main, src/homework.py 125-170.                                          *)
(***************************************************************************)
Init ==
    /\ PRACTICUM_TOKEN \in EnvValues
    /\ TELEGRAM_TOKEN \in EnvValues
    /\ pc = "check_tokens"
    /\ clock = 0
    /\ timestamp = Unbound
    /\ response = None
    /\ homeworks = <<>>
    /\ idx = 0
    /\ message = <<>>
    /\ error = NoError
    /\ handler = "none"
    /\ http = NoHttp
    /\ log = <<>>
    /\ sent = <<>>
    /\ cycle = 0
    /\ nfetch = 0
    /\ from_date = Unbound
    /\ raised = "none"
    /\ prev = NoPrev
    /\ sleeps = 0
    /\ slept = 0

\* line 127: check_tokens(); a raise leaves main and ends the process
CheckTokens ==
    /\ pc = "check_tokens"
    /\ LET r == check_tokens(PRACTICUM_TOKEN, TELEGRAM_TOKEN, TELEGRAM_CHAT_ID)
       IN /\ log' = log \o r.logs
          /\ error' = r.exc
          /\ pc' = IF r.exc = NoError THEN "create_bot" ELSE "terminated"
    /\ UNCHANGED <<PRACTICUM_TOKEN, TELEGRAM_TOKEN, clock, timestamp, response,
                   homeworks, idx, message, handler, http, sent, cycle, nfetch,
                   from_date, raised, prev, sleeps, slept>>

\* lines 129-131: bot = telebot.TeleBot(...); timestamp = int(time.time())
CreateBot ==
    /\ pc = "create_bot"
    /\ timestamp' = clock
    /\ pc' = "get_api_answer"
    /\ UNCHANGED <<PRACTICUM_TOKEN, TELEGRAM_TOKEN, clock, response, homeworks,
                   idx, message, error, handler, http, log, sent, cycle, nfetch,
                   from_date, raised, prev, sleeps, slept>>

\* line 135: response = get_api_answer(timestamp), the first step of a cycle
GetApiAnswer ==
    /\ pc = "get_api_answer"
    /\ \E out \in HttpOutcomes :
         LET r == get_api_answer(timestamp, out)
         IN /\ http' = out
            /\ response' = r.ret
            /\ error' = r.exc
            /\ raised' = IF r.exc # NoError THEN "get_api_answer" ELSE "none"
            /\ log' = r.logs
            /\ pc' = IF r.exc = NoError THEN "check_response" ELSE "except"
    /\ from_date' = timestamp
    /\ nfetch' = nfetch + 1
    /\ homeworks' = <<>>
    /\ idx' = 0
    /\ message' = <<>>
    /\ handler' = "none"
    /\ sent' = <<>>
    /\ sleeps' = 0
    /\ slept' = 0
    /\ UNCHANGED <<PRACTICUM_TOKEN, TELEGRAM_TOKEN, clock, timestamp, cycle,
                   prev>>

\* lines 136-138: homeworks = check_response(response); if homeworks:
CheckResponse ==
    /\ pc = "check_response"
    /\ LET r == check_response(response)
       IN /\ homeworks' = r.ret
          /\ error' = r.exc
          /\ raised' = IF r.exc # NoError THEN "check_response" ELSE "none"
          /\ log' = log \o r.logs
          /\ idx' = IF r.exc = NoError /\ r.ret # <<>> THEN 1 ELSE 0
          /\ pc' = IF r.exc # NoError THEN "except"
                   ELSE IF r.ret # <<>> THEN "parse_status"
                   ELSE "no_new_statuses"
    /\ UNCHANGED <<PRACTICUM_TOKEN, TELEGRAM_TOKEN, clock, timestamp, response,
                   message, handler, http, sent, cycle, nfetch,
                   from_date, prev, sleeps, slept>>

\* Variant with a defect: a record that does not format is logged and
\* skipped (try/except inside the for loop), and the cycle goes on.
ParseStatus_skipping ==
    /\ pc = "parse_status"
    /\ LET r == parse_status(homeworks[idx])
       IN /\ message' = IF r.exc = NoError THEN r.ret ELSE message
          /\ log' = log \o r.logs
          /\ IF r.exc = NoError
             THEN pc' = "send_message" /\ idx' = idx
             ELSE IF idx < Len(homeworks)
             THEN pc' = "parse_status" /\ idx' = idx + 1
             ELSE pc' = "advance" /\ idx' = idx
    /\ UNCHANGED <<PRACTICUM_TOKEN, TELEGRAM_TOKEN, clock, timestamp, response,
                   homeworks, handler, http, sent, cycle, nfetch, error,
                   from_date, raised, prev, sleeps, slept>>

\* line 140: message = parse_status(homework)
ParseStatus ==
    /\ pc = "parse_status"
    /\ LET r == parse_status(homeworks[idx])
       IN /\ message' = IF r.exc = NoError THEN r.ret ELSE message
          /\ error' = r.exc
          /\ raised' = IF r.exc # NoError THEN "parse_status" ELSE "none"
          /\ log' = log \o r.logs
          /\ pc' = IF r.exc = NoError THEN "send_message" ELSE "except"
    /\ UNCHANGED <<PRACTICUM_TOKEN, TELEGRAM_TOKEN, clock, timestamp, response,
                   homeworks, idx, handler, http, sent, cycle, nfetch,
                   from_date, prev, sleeps, slept>>

\* line 141: send_message(bot, message), then the next record or the end
SendStatus ==
    /\ pc = "send_message"
    /\ \E outcome \in SendOutcomes :
         LET r == send_message(message, outcome)
         IN /\ sent' = Append(sent, [kind |-> "status", text |-> message,
                                     outcome |-> outcome])
            /\ log' = log \o r.logs
            /\ error' = r.exc
            /\ raised' = IF r.exc # NoError THEN "send_message" ELSE "none"
            /\ IF r.exc # NoError
               THEN pc' = "except" /\ idx' = idx
               ELSE IF idx < Len(homeworks)
               THEN pc' = "parse_status" /\ idx' = idx + 1
               ELSE pc' = "advance" /\ idx' = idx
    /\ UNCHANGED <<PRACTICUM_TOKEN, TELEGRAM_TOKEN, clock, timestamp, response,
                   homeworks, message, handler, http, cycle, nfetch, from_date,
                   prev, sleeps, slept>>

\* lines 142-143: else: logger.debug(...)
NoNewStatuses ==
    /\ pc = "no_new_statuses"
    /\ log' = Append(log, LogEntry("debug",
                                   <<"V otvete API net novykh statusov.">>))
    /\ pc' = "advance"
    /\ UNCHANGED <<PRACTICUM_TOKEN, TELEGRAM_TOKEN, clock, timestamp, response,
                   homeworks, idx, message, error, handler, http, sent, cycle,
                   nfetch, from_date, raised, prev, sleeps, slept>>

\* Variant with a defect: the cursor is not moved.
AdvanceCursor_stale ==
    /\ pc = "advance"
    /\ pc' = "sleep"
    /\ UNCHANGED <<PRACTICUM_TOKEN, TELEGRAM_TOKEN, clock, timestamp, response,
                   homeworks, idx, message, error, handler, http, log, sent,
                   cycle, nfetch, from_date, raised, prev, sleeps, slept>>

\* line 145: timestamp = int(time.time()); line 146 is the sleep that follows
AdvanceCursor ==
    /\ pc = "advance"
    /\ timestamp' = clock
    /\ pc' = "sleep"
    /\ UNCHANGED <<PRACTICUM_TOKEN, TELEGRAM_TOKEN, clock, response, homeworks,
                   idx, message, error, handler, http, log, sent, cycle, nfetch,
                   from_date, raised, prev, sleeps, slept>>

\* Variant with a defect: the clauses of the subclasses come first.
except_clause_subclassfirst(e) ==
    IF IsInstance(e, "HomeworkNotFoundError") THEN "HomeworkNotFoundError"
    ELSE IF IsInstance(e, "HomeworkAPIResponseError")
    THEN "HomeworkAPIResponseError"
    ELSE IF IsInstance(e, "HomeworkAPIError") THEN "HomeworkAPIError"
    ELSE IF IsInstance(e, "Exception") THEN "Exception"
    ELSE "none"

\* lines 148-166: the first except clause whose class the exception is of
except_clause(e) ==
    IF IsInstance(e, "HomeworkAPIError") THEN "HomeworkAPIError"
    ELSE IF IsInstance(e, "HomeworkNotFoundError") THEN "HomeworkNotFoundError"
    ELSE IF IsInstance(e, "HomeworkAPIResponseError")
    THEN "HomeworkAPIResponseError"
    ELSE IF IsInstance(e, "Exception") THEN "Exception"
    ELSE "none"

\* str(error): a KeyError shows the repr of its argument
StrError(e) ==
    IF e.cls = "KeyError" THEN <<"\"">> \o e.message \o <<"\"">>
    ELSE e.message

\* lines 149, 155, 161, 167: the message of each clause
error_message(clause, e) ==
    CASE clause = "HomeworkAPIError" -> <<"Oshibka API: ">> \o e.message
      [] clause = "HomeworkNotFoundError" ->
            <<"Ne naideny dannye: ">> \o e.message
      [] clause = "HomeworkAPIResponseError" ->
            <<"Oshibka obrabotki otveta: ">> \o e.message
      [] clause = "Exception" -> <<"Neizvestnaya oshibka: ">> \o StrError(e)

\* An except clause of lines 148-170: it builds the message, calls
\* send_message if notify, logs the error, leaves the cursor at `cursor` and
\* goes on at `after`.  An exception that leaves send_message is raised inside
\* the clause, so no clause of this try statement catches it: it leaves main.
ExceptClause(notify, cursor, after) ==
    /\ pc = "except"
    /\ except_clause(error) # "none"
    /\ LET clause == except_clause(error)
           text == error_message(clause, error)
       IN /\ handler' = clause
          /\ message' = text
          /\ \E outcome \in SendOutcomes :
               LET r == IF notify THEN send_message(text, outcome)
                        ELSE Result(NoError, None, <<>>)
               IN /\ sent' = IF notify
                             THEN Append(sent, [kind |-> "error", text |-> text,
                                                outcome |-> outcome])
                             ELSE sent
                  /\ IF r.exc # NoError
                     THEN /\ log' = log \o r.logs
                          /\ pc' = "terminated"
                          /\ error' = r.exc
                     ELSE /\ log' = log \o r.logs \o <<LogEntry("error", text)>>
                          /\ pc' = after
                          /\ error' = error
    /\ timestamp' = cursor
    /\ UNCHANGED <<PRACTICUM_TOKEN, TELEGRAM_TOKEN, clock, response, homeworks,
                   idx, http, cycle, nfetch, from_date, raised, prev, sleeps,
                   slept>>

\* Variants of the clause with a defect: one that moves the cursor as the
\* success path does, and one that goes back to the fetch without sleeping.
HandleError_advancing == ExceptClause(TRUE, clock, "sleep")
HandleError_nosleep == ExceptClause(TRUE, timestamp, "get_api_answer")
HandleError_silent == ExceptClause(FALSE, timestamp, "sleep")

\* lines 148-170: the clause sends one message, does not touch timestamp and
\* reaches its time.sleep
HandleError == ExceptClause(TRUE, timestamp, "sleep")

\* lines 146, 152, 158, 164, 170: time.sleep(RETRY_PERIOD), then the loop
\* starts its next cycle; the locals of the finished cycle are dead and the
\* finished cycle becomes the cycle before
Sleep ==
    /\ pc = "sleep"
    /\ cycle < MaxCycles
    /\ clock' = clock + RETRY_PERIOD
    /\ sleeps' = sleeps + 1
    /\ slept' = slept + RETRY_PERIOD
    /\ cycle' = cycle + 1
    /\ pc' = "get_api_answer"
    /\ response' = None
    /\ homeworks' = <<>>
    /\ idx' = 0
    /\ message' = <<>>
    /\ error' = NoError
    /\ handler' = "none"
    /\ http' = NoHttp
    /\ log' = <<>>
    /\ sent' = <<>>
    /\ prev' = [from_date |-> from_date, raised |-> raised # "none"]
    /\ raised' = "none"
    /\ UNCHANGED <<PRACTICUM_TOKEN, TELEGRAM_TOKEN, timestamp, nfetch,
                   from_date>>

Next ==
    \/ CheckTokens
    \/ CreateBot
    \/ GetApiAnswer
    \/ CheckResponse
    \/ ParseStatus
    \/ SendStatus
    \/ NoNewStatuses
    \/ AdvanceCursor
    \/ HandleError
    \/ Sleep

Spec == Init /\ [][Next]_vars

\* The process is sequential and is never blocked for ever: time.sleep
\* returns, and the model's requests.get and bot.send_message return or raise.
FairSpec == Spec /\ WF_vars(Next)

(***************************************************************************)
(* Properties.                                                             *)
(***************************************************************************)
\* positions inside the while loop of main
LoopPcs ==
    {"get_api_answer", "check_response", "parse_status", "send_message",
     "no_new_statuses", "advance", "except", "sleep"}

\* positions of a cycle after its get_api_answer call
InCycle ==
    nfetch >= 1 /\ pc \in LoopPcs \ {"get_api_answer"}

Contains(text, piece) == \E i \in 1..Len(text) : text[i] = piece
ContainsAll(text, pieces) ==
    \A i \in 1..Len(pieces) : Contains(text, pieces[i])

ErrorNotifications == {i \in 1..Len(sent) : sent[i].kind = "error"}
StatusNotifications == {i \in 1..Len(sent) : sent[i].kind = "status"}

\* C1: in the polling loop the cursor differs from the value passed to the
\* cycle's get_api_answer only once the cycle's get_api_answer,
\* check_response and parse_status of every record have all returned (the
\* cycle is then at its sleep or past it); while and after a cycle raises the
\* cursor keeps the value the cycle fetched with, and the get_api_answer call
\* that follows a cycle that raised gets the same cursor as that cycle.
C1_CursorAdvancesOnlyOnSuccess ==
    /\ (nfetch >= 1 /\ pc \in LoopPcs /\ timestamp # from_date)
          => /\ raised = "none"
             /\ pc \in {"sleep", "get_api_answer"}
             /\ pc = "get_api_answer" => ~prev.raised
             /\ pc = "sleep" =>
                  /\ http.raises = NoError /\ http.json_error = NoError
                  /\ response = http.json
                  /\ homeworks = response.homeworks.v
                  /\ Len(sent) = Len(homeworks)
                  /\ handler = "none"
    /\ (nfetch >= 1 /\ pc \in LoopPcs /\ raised # "none")
          => timestamp = from_date
    /\ (nfetch >= 2 /\ InCycle /\ prev.raised)
          => from_date = prev.from_date

\* C1 witness: a cycle raised, the next cycle fetched with the same cursor
\* although the clock had moved on, succeeded, and advanced the cursor.
C1_Witness ==
    /\ nfetch >= 2 /\ prev.raised /\ from_date = prev.from_date
    /\ pc = "sleep" /\ raised = "none"
    /\ clock # from_date /\ timestamp = clock

\* C2: a cycle in which get_api_answer, check_response or parse_status raised
\* calls send_message exactly once with an error message, which embeds the
\* text of the exception, and is then at its sleep; before the except clause
\* ran, and in a cycle that did not raise, no error message is sent.
C2_OneErrorNotificationPerFailedCycle ==
    /\ Cardinality(ErrorNotifications) <= 1
    /\ (pc \in LoopPcs /\ raised = "none") => ErrorNotifications = {}
    /\ (pc = "except") => ErrorNotifications = {}
    /\ (InCycle /\ raised # "none" /\ pc # "except")
          => /\ pc = "sleep"
             /\ ErrorNotifications = {Len(sent)}
             /\ sent[Len(sent)].text = message
             /\ ContainsAll(message, error.message)
             /\ Len(message) > Len(error.message)

\* C2 witness: parse_status raised on the second record, after one status
\* notification; the error notification is the cycle's second send.
C2_Witness ==
    /\ pc = "sleep" /\ raised = "parse_status"
    /\ Len(sent) = 2 /\ sent[1].kind = "status" /\ sent[2].kind = "error"

\* C3: once the loop is entered, whatever get_api_answer, check_response,
\* parse_status or a Telegram send raise, main never leaves the loop: every
\* cycle is followed by its sleep and another cycle, so main goes through all
\* the cycles the model follows and is at the sleep of the last one.
C3_LoopNeverTerminates ==
    (pc \in LoopPcs) ~> (pc = "sleep" /\ cycle = MaxCycles)

\* C3 witness: a cycle whose status notification and error notification both
\* failed in Telegram is at its sleep, with a next cycle to come.
C3_Witness ==
    /\ pc = "sleep" /\ cycle < MaxCycles /\ raised = "parse_status"
    /\ \E i \in StatusNotifications : sent[i].outcome # NoError
    /\ \E i \in ErrorNotifications : sent[i].outcome # NoError

\* C4: whenever main is about to call get_api_answer again, exactly one
\* time.sleep, of RETRY_PERIOD = 600 seconds, has been done since the call
\* before, whatever the cycle before did; inside a cycle, before its sleep,
\* none has been done.
C4_OneSleepBetweenFetches ==
    /\ RETRY_PERIOD = 600
    /\ (nfetch >= 1 /\ pc = "get_api_answer")
          => sleeps = 1 /\ slept = RETRY_PERIOD
    /\ InCycle => sleeps = 0 /\ slept = 0

\* C4 witness: the fetch after a cycle that raised, one sleep after it.
C4_Witness ==
    /\ nfetch >= 1 /\ pc = "get_api_answer" /\ prev.raised
    /\ sleeps = 1 /\ slept = 600

MissingCredentials ==
    {n \in {"PRACTICUM_TOKEN", "TELEGRAM_TOKEN", "TELEGRAM_CHAT_ID"} :
        ~Truthy(CASE n = "PRACTICUM_TOKEN" -> PRACTICUM_TOKEN
                  [] n = "TELEGRAM_TOKEN" -> TELEGRAM_TOKEN
                  [] n = "TELEGRAM_CHAT_ID" -> TELEGRAM_CHAT_ID)}

\* C5: with at least one falsy credential main is at check_tokens or has
\* been ended by the ValueError it raised, with no fetch, no send and no
\* sleep done; with all three truthy check_tokens does not raise and main
\* goes on to the loop.
C5_NoCycleWithoutCredentials ==
    /\ MissingCredentials # {}
          => /\ pc \in {"check_tokens", "terminated"}
             /\ pc = "terminated" => error.cls = "ValueError"
             /\ nfetch = 0 /\ sent = <<>> /\ sleeps = 0 /\ cycle = 0
             /\ clock = 0 /\ timestamp = Unbound
    /\ MissingCredentials = {}
          => /\ pc # "terminated"
             /\ pc # "check_tokens" => error.cls # "ValueError"

\* C5 witness: one token is set, the other is the empty string, and
\* check_tokens has ended main.
C5_Witness ==
    /\ PRACTICUM_TOKEN = PyStr("secret") /\ TELEGRAM_TOKEN = PyStr("")
    /\ pc = "terminated"

CriticalEntries == {i \in 1..Len(log) : log[i].level = "critical"}

\* C6 as stated: when check_tokens raises, it has logged as many critical
\* entries as variables are missing and the message of the exception lists
\* every missing variable's name.
C6_AccumulateThenReport ==
    (pc = "terminated" /\ error.cls = "ValueError")
        => /\ Cardinality(CriticalEntries) = Cardinality(MissingCredentials)
           /\ \A n \in MissingCredentials : Contains(error.message, n)

\* C6 amended: when check_tokens raises, one or more variables are missing,
\* and whatever their number it has logged exactly one critical entry and
\* raised one ValueError, both with the same generic text that names no
\* variable.
C6_SingleGenericReport ==
    (pc = "terminated" /\ error.cls = "ValueError")
        => /\ MissingCredentials # {}
           /\ log = <<LogEntry("critical",
                      <<"Otsutstvuet obyazatelnaya peremennaya okruzheniya.">>)>>
           /\ error.message =
                  <<"Otsutstvuet obyazatelnaya peremennaya okruzheniya.">>
           /\ \A n \in MissingCredentials : ~Contains(error.message, n)

\* C6 witness: both tokens are missing and check_tokens has raised.
C6_Witness ==
    /\ pc = "terminated" /\ error.cls = "ValueError"
    /\ MissingCredentials = {"PRACTICUM_TOKEN", "TELEGRAM_TOKEN"}

\* C7: when requests.get returned a response whose status code is not 200
\* (201 included), get_api_answer raised HomeworkAPIResponseError with the
\* status code in its message and returned nothing; whenever get_api_answer
\* returned, the status was 200 and the value is the deserialized body.
C7_Non200Raises ==
    (InCycle /\ http.raises = NoError)
        => /\ http.status_code # PyInt("200")
                => /\ raised = "get_api_answer"
                   /\ pc \in {"except", "sleep"}
                   /\ error.cls = "HomeworkAPIResponseError"
                   /\ Contains(error.message, http.status_code.v)
                   /\ response = None
           /\ raised # "get_api_answer"
                => /\ http.status_code = PyInt("200")
                   /\ response = http.json

\* C7 witness: the API answered 201 and get_api_answer has raised.
C7_Witness ==
    /\ InCycle /\ http.raises = NoError /\ http.status_code = PyInt("201")
    /\ pc = "except" /\ error.cls = "HomeworkAPIResponseError"

\* check_response has been called in the current cycle
Checked ==
    InCycle /\ raised # "get_api_answer" /\ pc # "check_response"

\* C8: after check_response was called on a payload: if the payload is no
\* dict it raised TypeError; else if the dict has no key 'homeworks' it raised
\* KeyError; else if the value of 'homeworks' is no list it raised TypeError;
\* else it returned the 'homeworks' list itself, whatever other keys the dict
\* has.  In the three error cases main got no list.
C8_CheckResponseOrder ==
    Checked =>
        IF response.t # "dict"
        THEN /\ raised = "check_response" /\ error.cls = "TypeError"
             /\ error.message = NotADict
             /\ homeworks = <<>> /\ pc \in {"except", "sleep"}
        ELSE IF response.homeworks = Absent
        THEN /\ raised = "check_response" /\ error.cls = "KeyError"
             /\ homeworks = <<>> /\ pc \in {"except", "sleep"}
        ELSE IF response.homeworks.t # "list"
        THEN /\ raised = "check_response" /\ error.cls = "TypeError"
             /\ error.message = HomeworksNotAList
             /\ homeworks = <<>> /\ pc \in {"except", "sleep"}
        ELSE /\ raised # "check_response"
             /\ homeworks = response.homeworks.v

\* C8 witness: a dict with an extra key and a list of two different records
\* was checked, and main holds that list.
C8_Witness ==
    /\ Checked /\ pc = "parse_status"
    /\ response.t = "dict" /\ response.current_date # Absent
    /\ Len(homeworks) = 2 /\ homeworks[1] # homeworks[2]
    /\ homeworks = response.homeworks.v

\* parse_status has been called on the record homeworks[idx]
Parsed ==
    InCycle /\ idx >= 1 /\ (pc = "send_message" \/ raised = "parse_status")

KnownStatuses == {PyStr("approved"), PyStr("reviewing"), PyStr("rejected")}

ExpectedVerdict(status) ==
    CASE status = PyStr("approved") ->
            "Rabota proverena: revyueru vsyo ponravilos. Ura!"
      [] status = PyStr("reviewing") -> "Rabota vzyata na proverku revyuerom."
      [] status = PyStr("rejected") ->
            "Rabota proverena: u revyuera est zamechaniya."

ExpectedMessage(rec) ==
    <<"Izmenilsya status proverki raboty \"", Str(rec.homework_name), "\". ",
      ExpectedVerdict(rec.status)>>

\* C9 as stated: for a record that has the key homework_name and a status
\* among approved, reviewing, rejected, parse_status returned the status
\* message with the record's name and the verdict of its status.
C9_KnownStatusFormats ==
    LET rec == homeworks[idx]
    IN (/\ Parsed /\ rec.t = "dict"
        /\ rec.homework_name # Absent
        /\ rec.status \in KnownStatuses)
          => /\ pc = "send_message" /\ raised = "none"
             /\ message = ExpectedMessage(rec)

\* C9 amended: for a record whose homework_name is present and not null and
\* whose status is among approved, reviewing, rejected, parse_status returned
\* exactly that message and did not raise.
C9_KnownStatusFormatsNonNull ==
    LET rec == homeworks[idx]
    IN (/\ Parsed /\ rec.t = "dict"
        /\ rec.homework_name \notin {Absent, None}
        /\ rec.status \in KnownStatuses)
          => /\ pc = "send_message" /\ raised = "none"
             /\ message = ExpectedMessage(rec)

\* C9 witness: the record hw1/rejected was formatted.
C9_Witness ==
    /\ Parsed /\ pc = "send_message"
    /\ homeworks[idx] = HomeworkDict(PyStr("hw1"), PyStr("rejected"))
    /\ message = <<"Izmenilsya status proverki raboty \"", "hw1", "\". ",
                   "Rabota proverena: u revyuera est zamechaniya.">>

\* C10 as stated: for a record that has the key homework_name and a status
\* value outside approved, reviewing, rejected, parse_status raised
\* HomeworkAPIResponseError with the status value in its message, and the
\* record got no message.
C10_UnknownStatusRaises ==
    LET rec == homeworks[idx]
    IN (/\ Parsed /\ rec.t = "dict"
        /\ rec.homework_name # Absent
        /\ rec.status \notin KnownStatuses \cup {Absent})
          => /\ raised = "parse_status" /\ pc \in {"except", "sleep"}
             /\ error.cls = "HomeworkAPIResponseError"
             /\ Contains(error.message, Str(rec.status))
             /\ StatusNotifications = 1..(idx - 1)

\* C10 amended: the same for a record whose homework_name is present and not
\* null and whose status is present, not null, hashable (a string or a
\* number) and outside approved, reviewing, rejected.
C10_UnknownHashableStatusRaises ==
    LET rec == homeworks[idx]
    IN (/\ Parsed /\ rec.t = "dict"
        /\ rec.homework_name \notin {Absent, None}
        /\ rec.status \notin KnownStatuses \cup {Absent, None}
        /\ rec.status.t \in {"str", "int"})
          => /\ raised = "parse_status" /\ pc \in {"except", "sleep"}
             /\ error.cls = "HomeworkAPIResponseError"
             /\ Contains(error.message, Str(rec.status))
             /\ StatusNotifications = 1..(idx - 1)

\* C10 witness: parse_status raised on the record hw1/lost.
C10_Witness ==
    /\ Parsed /\ raised = "parse_status"
    /\ homeworks[idx] = HomeworkDict(PyStr("hw1"), PyStr("lost"))
    /\ error.cls = "HomeworkAPIResponseError"

MissingFieldsText ==
    <<"V dannykh o domashnei rabote otsutstvuyut obyazatelnye polya.">>

\* log entries of the current cycle that report an unknown status
UnknownStatusEntries ==
    {i \in 1..Len(log) : log[i].text[1] = "Neizvestnyi status raboty: "}

\* C11: for a record that lacks homework_name or status, parse_status raised
\* HomeworkNotFoundError with the missing-fields text and no verdict lookup
\* took place: nothing reports an unknown status, also when the record lacks
\* homework_name and carries a status outside the table.
C11_MissingFieldsFirst ==
    LET rec == homeworks[idx]
    IN (/\ Parsed /\ rec.t = "dict"
        /\ (rec.homework_name = Absent \/ rec.status = Absent))
          => /\ raised = "parse_status" /\ pc \in {"except", "sleep"}
             /\ error.cls = "HomeworkNotFoundError"
             /\ error.message = MissingFieldsText
             /\ UnknownStatusEntries = {}
             /\ StatusNotifications = 1..(idx - 1)

\* C11 witness: parse_status raised HomeworkNotFoundError on a record that
\* has no homework_name and has the status 'lost'.
C11_Witness ==
    /\ Parsed /\ raised = "parse_status"
    /\ homeworks[idx] = HomeworkDict(Absent, PyStr("lost"))
    /\ error.cls = "HomeworkNotFoundError"

FailedSends == {i \in 1..Len(sent) : sent[i].outcome # NoError}
DeliveredSends == {i \in 1..Len(sent) : sent[i].outcome = NoError}

SendErrorEntries ==
    {i \in 1..Len(log) :
        /\ log[i].level = "error"
        /\ log[i].text[1] = "Ne udalos otpravit soobshchenie v Telegram: "}
MessageSentEntries ==
    {i \in 1..Len(log) :
        /\ log[i].level = "debug"
        /\ log[i].text[1] = "Bot otpravil soobshchenie \""}

\* C12: no exception leaves send_message: after a send that failed in
\* Telegram main is neither ended nor in an except clause because of it; the
\* cycle's log holds one error entry per failed send, with the cause, and one
\* 'message sent' debug entry per send that succeeded, none for a failed one.
C12_SendMessageNeverRaises ==
    /\ raised # "send_message"
    /\ pc \in LoopPcs
          => /\ Cardinality(SendErrorEntries) = Cardinality(FailedSends)
             /\ Cardinality(MessageSentEntries) = Cardinality(DeliveredSends)
             /\ \A i \in SendErrorEntries :
                  \E j \in FailedSends :
                     ContainsAll(log[i].text, sent[j].outcome.message)
    /\ FailedSends # {} => pc # "terminated"

\* C12 witness: the send for the first record failed, send_message returned
\* and main is about to format the second record.
C12_Witness ==
    /\ pc = "parse_status" /\ idx = 2 /\ FailedSends = {1}
    /\ Cardinality(SendErrorEntries) = 1 /\ MessageSentEntries = {}

NoNewStatusEntries ==
    {i \in 1..Len(log) :
        /\ log[i].level = "debug"
        /\ log[i].text = <<"V otvete API net novykh statusov.">>}

\* C13: while a cycle goes through its list, the sends made so far are the
\* status messages of the records before the current one, in list order, and
\* the record just formatted is the next to be sent; a cycle that ends
\* without a raise has attempted exactly one status notification per record,
\* in list order, or, for an empty list, none and one debug entry; its
\* cursor is then the current time.
C13_OneNotificationPerRecord ==
    /\ (InCycle /\ pc \in {"parse_status", "send_message"})
          => /\ Len(sent) = idx - 1
             /\ \A i \in 1..(idx - 1) :
                  /\ sent[i].kind = "status"
                  /\ sent[i].text = ExpectedMessage(homeworks[i])
             /\ pc = "send_message" => message = ExpectedMessage(homeworks[idx])
    /\ (InCycle /\ pc = "sleep" /\ raised = "none")
          => /\ Len(sent) = Len(homeworks)
             /\ \A i \in 1..Len(homeworks) :
                  /\ sent[i].kind = "status"
                  /\ sent[i].text = ExpectedMessage(homeworks[i])
             /\ Cardinality(NoNewStatusEntries)
                  = (IF homeworks = <<>> THEN 1 ELSE 0)
             /\ timestamp = clock

\* C13 witness: a later cycle with two different records sent both messages
\* in list order and advanced the cursor past the value it fetched with.
C13_Witness ==
    /\ InCycle /\ pc = "sleep" /\ raised = "none"
    /\ Len(homeworks) = 2 /\ homeworks[1] # homeworks[2]
    /\ Len(sent) = 2
    /\ sent[1].text = ExpectedMessage(homeworks[1])
    /\ sent[2].text = ExpectedMessage(homeworks[2])
    /\ timestamp = clock /\ timestamp # from_date

\* a record parse_status cannot format: no dict, a field missing or null, or
\* a status outside the table
Unformattable(rec) ==
    \/ rec.t # "dict"
    \/ rec.homework_name \in {Absent, None}
    \/ rec.status \notin KnownStatuses

UnformattableRecords ==
    {i \in 1..Len(homeworks) : Unformattable(homeworks[i])}

\* C14: when a cycle whose list holds a record parse_status cannot format is
\* at its sleep, with k the first such record: parse_status raised on record
\* k, the sends of the cycle are the status messages of records 1..k-1 in
\* order followed by one error message, no record after k was formatted or
\* notified, and the cursor is the value the cycle fetched with; the cycle
\* after a cycle that raised fetches with the same from_date.
C14_RaiseAbandonsRestOfCycle ==
    /\ (InCycle /\ pc = "sleep" /\ UnformattableRecords # {})
          => LET k == CHOOSE i \in UnformattableRecords :
                         \A j \in UnformattableRecords : i <= j
             IN /\ raised = "parse_status" /\ idx = k
                /\ Len(sent) = k
                /\ \A i \in 1..(k - 1) :
                     /\ sent[i].kind = "status"
                     /\ sent[i].text = ExpectedMessage(homeworks[i])
                /\ sent[k].kind = "error"
                /\ timestamp = from_date
    /\ (nfetch >= 2 /\ InCycle /\ prev.raised) => from_date = prev.from_date

\* C14 witness: in a cycle after the first, parse_status raised on the first
\* of two records; the second, which formats, was neither formatted nor
\* notified, and the cursor stayed behind the clock.
C14_Witness ==
    /\ InCycle /\ pc = "sleep" /\ raised = "parse_status"
    /\ Len(homeworks) = 2 /\ UnformattableRecords = {1} /\ idx = 1
    /\ Len(sent) = 1 /\ sent[1].kind = "error"
    /\ timestamp = from_date /\ timestamp # clock

\* C15: a status send that failed in Telegram raises nothing in main; in a
\* cycle with such a send the records after it are still formatted and sent,
\* each record once (the failed one is not sent again), no error notification
\* exists unless parse_status raised on a later record, and if every record
\* formats the cycle ends without a raise, with one send per record and the
\* cursor at the current time.
C15_FailedSendDoesNotEndCycle ==
    /\ raised # "send_message"
    /\ (InCycle /\ FailedSends \cap StatusNotifications # {})
          => /\ \A i \in StatusNotifications :
                  sent[i].text = ExpectedMessage(homeworks[i])
             /\ raised = "none" => ErrorNotifications = {} /\ handler = "none"
             /\ ErrorNotifications # {} => raised = "parse_status"
             /\ pc \in {"parse_status", "send_message"} => Len(sent) = idx - 1
             /\ (pc = "sleep" /\ UnformattableRecords = {})
                   => /\ raised = "none"
                      /\ StatusNotifications = 1..Len(homeworks)
                      /\ Len(sent) = Len(homeworks)
                      /\ timestamp = clock

\* C15 witness: in a cycle after the first the send for the first of two
\* records failed, the second was sent, and the cycle advanced the cursor.
C15_Witness ==
    /\ InCycle /\ pc = "sleep" /\ raised = "none"
    /\ Len(homeworks) = 2 /\ FailedSends = {1} /\ Len(sent) = 2
    /\ sent[2].kind = "status" /\ ErrorNotifications = {}
    /\ timestamp = clock /\ timestamp # from_date

\* C16: when requests.get raised (a connection error or a timeout),
\* get_api_answer raised an exception of class HomeworkAPIError itself, not
\* of its subclass HomeworkAPIResponseError, carrying the text of the cause,
\* and returned nothing; when the API answered with a status other than 200
\* the class is HomeworkAPIResponseError, so the two cases differ by class.
C16_TransportFailureIsPlainApiError ==
    (InCycle /\ pc = "except")
        => /\ http.raises # NoError
                => /\ raised = "get_api_answer"
                   /\ error.cls = "HomeworkAPIError"
                   /\ error.cls # "HomeworkAPIResponseError"
                   /\ ContainsAll(error.message, http.raises.message)
                   /\ response = None
           /\ (http.raises = NoError /\ http.status_code # PyInt("200"))
                => /\ raised = "get_api_answer"
                   /\ error.cls = "HomeworkAPIResponseError"

\* C16 witness: the request timed out and get_api_answer has raised
\* HomeworkAPIError.
C16_Witness ==
    /\ InCycle /\ pc = "except" /\ raised = "get_api_answer"
    /\ http.raises.cls = "Timeout" /\ error.cls = "HomeworkAPIError"

HomeworkApiClasses ==
    {"HomeworkAPIError", "HomeworkNotFoundError", "HomeworkAPIResponseError"}

\* C17: the clauses for HomeworkNotFoundError and HomeworkAPIResponseError
\* never run and no message has their prefix; an exception of class
\* HomeworkAPIError or of one of its two subclasses is handled by the first
\* clause, with the prefix 'Oshibka API: '; every other exception, the
\* TypeError and KeyError of check_response among them, is handled by the
\* last clause, with the prefix 'Neizvestnaya oshibka: '.
C17_FirstClauseShadowsSubclasses ==
    /\ handler \in {"none", "HomeworkAPIError", "Exception"}
    /\ \A i \in 1..Len(sent) :
          sent[i].text[1] \notin {"Ne naideny dannye: ",
                                  "Oshibka obrabotki otveta: "}
    /\ (InCycle /\ pc = "sleep" /\ raised # "none")
          => /\ ErrorNotifications = {Len(sent)}
             /\ IF error.cls \in HomeworkApiClasses
                THEN /\ handler = "HomeworkAPIError"
                     /\ sent[Len(sent)].text[1] = "Oshibka API: "
                ELSE /\ handler = "Exception"
                     /\ sent[Len(sent)].text[1] = "Neizvestnaya oshibka: "
             /\ raised = "check_response"
                  => /\ error.cls \in {"TypeError", "KeyError"}
                     /\ handler = "Exception"

\* C17 witness: a HomeworkNotFoundError raised by parse_status was handled by
\* the first clause.
C17_Witness ==
    /\ InCycle /\ pc = "sleep" /\ raised = "parse_status"
    /\ error.cls = "HomeworkNotFoundError" /\ handler = "HomeworkAPIError"
    /\ sent[Len(sent)].text[1] = "Oshibka API: "

\* the record with its null fields removed
WithoutNullFields(rec) ==
    HomeworkDict(IF rec.homework_name = None THEN Absent
                 ELSE rec.homework_name,
                 IF rec.status = None THEN Absent ELSE rec.status)

\* C18: for a record whose homework_name or status is present with the value
\* None, parse_status raised HomeworkNotFoundError with the missing-fields
\* text, the record got no message, and the outcome is the one parse_status
\* has for the same record without those keys, whatever the other field is.
C18_NullFieldIsMissingField ==
    LET rec == homeworks[idx]
    IN (/\ Parsed /\ rec.t = "dict"
        /\ (rec.homework_name = None \/ rec.status = None))
          => /\ raised = "parse_status" /\ pc \in {"except", "sleep"}
             /\ error.cls = "HomeworkNotFoundError"
             /\ error.message = MissingFieldsText
             /\ StatusNotifications = 1..(idx - 1)
             /\ parse_status(rec) = parse_status(WithoutNullFields(rec))

\* C18 witness: parse_status raised HomeworkNotFoundError on a record whose
\* homework_name is None and whose status is 'approved'.
C18_Witness ==
    /\ Parsed /\ raised = "parse_status"
    /\ homeworks[idx] = HomeworkDict(None, PyStr("approved"))
    /\ error.cls = "HomeworkNotFoundError"

====
